---- MODULE Spec2Model ----
(***************************************************************************)
(* The login action of dhbw.py (class Login, run by main): warm-up GET,    *)
(* login with a retry budget, keep-alive loop with re-login, and the       *)
(* shutdown hook that main runs on a KeyboardInterrupt.                    *)
(*                                                                         *)
(* Every HTTP exchange, every password prompt and every sleep is one step. *)
(* The server's answers, the operator's typing and the operator's          *)
(* interrupt are chosen nondeterministically.                              *)
(***************************************************************************)
EXTENDS Integers, Sequences, FiniteSets, TLC

\* ---------------------------------------------------------------- bounds

\* The keep-alive loop is `while True`; the model stops polling after
\* MaxPolls polls so that the history counters stay finite.
MaxPolls == 3

\* The longest run of verbosity flags on a modelled command line.
MaxFlags == 4

\* ------------------------------------------------------ program constants

\* retries = 5 at the head of _login.
RetryBudget == 5

\* Python's None.
None == "None"

\* The suffix _login and _keepalive test the final URL against.
LandingSuffix == <<"index.php">>

\* Final URLs a response can carry, as sequences of string pieces.  Two
\* end with index.php, two do not (one of them is the landing page with a
\* query string, which endswith() does not recognise).
ResponseUrls ==
    { <<"https://", "zerberus.ba-horb.de", "/", "index.php">>,
      <<"https://", "zerberus.ba-horb.de", "/sub/", "index.php">>,
      <<"https://", "zerberus.ba-horb.de", "/", "index.php", "?again=1">>,
      <<"https://", "zerberus.ba-horb.de", "/", "online.php">> }

\* What the operator may type at a getpass prompt.
Passwords == {"pw1", "pw2"}

\* Values options.safe_mode can hold: the option stores its argument as a
\* string and defaults to None; only its truth value is used.
SafeModeValues == {None, "", "yes"}

\* Outcomes of a GET whose status code is inspected.
StatusOutcomes == {"ConnectionError", "200", "other"}

\* _login's `response = None`: no response object yet.
NoResponse == <<>>

\* requests.exceptions.ConnectionError raised instead of a response.
ConnError == <<"ConnectionError">>

\* Outcomes of a request whose final URL is inspected.
UrlOutcomes == {ConnError} \cup ResponseUrls

\* Status codes a keep-alive response can carry (_keepalive never reads
\* response.status_code).
PollStatusCodes == {200, 500}

\* No keep-alive poll has been sent yet.
NoPoll == [error |-> FALSE, url |-> NoResponse, status |-> 0]

\* Outcomes of GET online.php: a ConnectionError, or a response with its
\* final URL and its status code.
PollOutcomes ==
    {[error |-> TRUE, url |-> NoResponse, status |-> 0]} \cup
    {[error |-> FALSE, url |-> u, status |-> c] :
        u \in ResponseUrls, c \in PollStatusCodes}

\* Values options.password can hold: None without -p, else the string given.
OptPasswords == {None, "pw0"}

\* logging's numeric levels, as main hands them to setLevel.
WARNING == 30
INFO == 20
DEBUG == 10
TRACE == 1

\* default=2 of the counted -v option.
VerboseDefault == 2

\* Spellings of the verbosity flag on the command line, with the number
\* of occurrences each one counts for.
VerbosityFlags == {"-v", "-vv", "--verbose"}

VARIABLES
    pc,            \* position of the process
    safe_mode,     \* options.safe_mode
    password,      \* self.password
    loginKind,     \* which call of _login is (or was last) running
    retries,       \* _login's local `retries`
    response,      \* _login's local `response`: NoResponse or the final URL
    passwd,        \* value get_passwd() returned for the pending POST
    loginResult,   \* <<>> before any _login call returned, then <<b>> for the
                   \* return value b of the most recent one
    exitcode,      \* <<>> while running, <<c>> once the process has ended
    interrupted,   \* a KeyboardInterrupt has left execute()
    logoutOutcome, \* outcome of the logout request, None before it
    \* history of the run
    lastIO,        \* the most recent request, prompt or sleep
    sentPassword,  \* password field of the most recent login POST
    expired,       \* a poll failed and no _login has succeeded since
    serverOk,      \* no login POST or poll so far failed or came back to index.php
    nPrompt,       \* getpass prompts shown
    nPost,         \* login POSTs sent
    postsCall,     \* login POSTs sent by the current _login call
    promptsCall,   \* getpass prompts shown by the current _login call
    nPoll,         \* keep-alive polls sent
    nPollFail,     \* keep-alive polls that reported failure
    nRelogin,      \* _login calls made from the keep-alive loop
    nLogout,       \* logout requests sent
    logged,        \* the most recent message handed to a logger (its msgid)
    pollOutcome,   \* outcome of the poll execute is acting on, or NoPoll
    \* the invocation
    action,        \* options.actiontarget: "login" or "termserv"
    opt_password,  \* options.password
    \* the remote-desktop action
    rdesktop_found, \* check_executable("rdesktop")
    proc,          \* self.proc: None until Popen has returned
    child,         \* the rdesktop process: "none", "running" or "exited"
    returncode,    \* self.proc.returncode: None until poll or wait reaps the child
    signalled,     \* None, or the child's state when terminate() signalled it
    \* main's option parsing
    argv,          \* verbosity flags still to be parsed
    verbose,       \* options.verbose
    level          \* the root logger's level

vars == << pc, safe_mode, password, loginKind, retries, response, passwd,
           loginResult, exitcode, interrupted, logoutOutcome, lastIO,
           sentPassword, expired, serverOk, nPrompt, nPost, postsCall,
           promptsCall, nPoll, nPollFail, nRelogin, nLogout, logged,
           pollOutcome, action, opt_password, rdesktop_found, proc, child,
           returncode, signalled, argv, verbose, level >>

\* What no step of the run changes: the parsed options.
optVars == << action, opt_password >>

\* The state of the remote-desktop action.
rdVars == << rdesktop_found, proc, child, returncode, signalled >>

\* The state of main's option parsing and logging set-up.
verbVars == << argv, verbose, level >>

loginVars == << retries, response, passwd, loginResult, postsCall, promptsCall >>
histVars  == << lastIO, sentPassword, expired, serverOk, nPrompt, nPost,
                nPoll, nPollFail, nRelogin, nLogout >>

\* ------------------------------------------------------------- helpers

\* str.endswith on a URL given as a sequence of pieces.
EndsWith(url, suffix) ==
    /\ Len(url) >= Len(suffix)
    /\ SubSeq(url, Len(url) - Len(suffix) + 1, Len(url)) = suffix

\* Python truth value of options.safe_mode.
Truthy(v) == v # None /\ v # ""

\* The status the operating system reports for sys.exit(c).
ExitStatus(c) == c % 256


\* Variant of get_passwd that caches the password whatever safe_mode says.
get_passwd_cached(safe, pw, typed) ==
    IF pw = None
    THEN [ret |-> typed, password |-> typed, prompted |-> TRUE]
    ELSE [ret |-> pw, password |-> pw, prompted |-> FALSE]

\* Variant of get_passwd that never stores what was typed.
get_passwd_nocache(safe, pw, typed) ==
    IF Truthy(safe) \/ pw = None
    THEN [ret |-> typed, password |-> pw, prompted |-> TRUE]
    ELSE [ret |-> pw, password |-> pw, prompted |-> FALSE]

\* Login.get_passwd: `typed` is what the operator would type if prompted.
\* Returns the value handed back, the new self.password and whether the
\* prompt was shown.
get_passwd(safe, pw, typed) ==
    IF Truthy(safe)
    THEN [ret |-> typed, password |-> pw, prompted |-> TRUE]
    ELSE IF pw = None
         THEN [ret |-> typed, password |-> typed, prompted |-> TRUE]
         ELSE [ret |-> pw, password |-> pw, prompted |-> FALSE]


\* Variant of _login's return expression without the `retries > 0` test.
login_result_noretries(r, resp) == ~EndsWith(resp, LandingSuffix)

\* Variant of _login's return expression without the URL test.
login_result_nourl(r, resp) == r > 0

\* The return expression of _login.
login_result(r, resp) == r > 0 /\ ~EndsWith(resp, LandingSuffix)

\* The return expression of _keepalive for a response with final URL `url`.
keepalive_result(url) == ~EndsWith(url, LandingSuffix)

\* Variant of _keepalive that also takes a status other than 200 for a
\* dead session.
keepalive_status(o) ==
    IF o.error THEN FALSE ELSE keepalive_result(o.url) /\ o.status = 200

\* Login._keepalive on an outcome of the GET: False from the except
\* branch, else the return expression on the response's URL.
keepalive(o) == IF o.error THEN FALSE ELSE keepalive_result(o.url)

\* main's chain of `if options.verbose >= k: root_logger.setLevel(...)`,
\* starting from the root logger's level l.
set_level(l, v) ==
    LET l1 == IF v >= 1 THEN WARNING ELSE l
        l2 == IF v >= 2 THEN INFO ELSE l1
        l3 == IF v >= 3 THEN DEBUG ELSE l2
    IN  IF v >= 4 THEN TRACE ELSE l3

\* What one command-line token adds to the counted option.
flag_count(tok) == IF tok = "-vv" THEN 2 ELSE 1

\* `while retries > 0`: where _login goes with r retries left.
login_loop(r) == IF r > 0 THEN "get_passwd" ELSE "login_return"

\* Positions inside Login.execute, where main's `except KeyboardInterrupt`
\* is in force.
ExecutePcs == {"init_session", "login_call", "get_passwd", "post",
               "retry_sleep", "login_return", "login_done", "keepalive",
               "poll_sleep"}

\* ---------------------------------------------------------------- Init

\* main has parsed the options, set the root logger's level and built the
\* action object: a Login (init sets self.password = None, execute has
\* created the session) or a RemoteDesktop (init has looked for rdesktop
\* and logged a fatal message if it is missing).
Init ==
    /\ action \in {"login", "termserv"}
    /\ pc = IF action = "login" THEN "init_session" ELSE "rd_execute"
    /\ safe_mode \in (IF action = "login" THEN SafeModeValues ELSE {None})
    /\ password = None
    /\ loginKind = None
    /\ retries = 0
    /\ response = NoResponse
    /\ passwd = None
    /\ loginResult = <<>>
    /\ exitcode = <<>>
    /\ interrupted = FALSE
    /\ logoutOutcome = None
    /\ lastIO = None
    /\ sentPassword = None
    /\ expired = FALSE
    /\ serverOk = TRUE
    /\ nPrompt = 0
    /\ nPost = 0
    /\ postsCall = 0
    /\ promptsCall = 0
    /\ nPoll = 0
    /\ nPollFail = 0
    /\ nRelogin = 0
    /\ nLogout = 0
    /\ pollOutcome = NoPoll
    /\ opt_password \in (IF action = "login" THEN OptPasswords ELSE {None})
    /\ rdesktop_found \in (IF action = "login" THEN {FALSE} ELSE BOOLEAN)
    /\ logged = IF action = "termserv" /\ ~rdesktop_found
                THEN "Remote desktop connections require rdesktop"
                ELSE None
    /\ proc = None
    /\ child = "none"
    /\ returncode = None
    /\ signalled = None
    /\ argv = <<>>
    /\ verbose = VerboseDefault
    /\ level = set_level(WARNING, VerboseDefault)

\* ------------------------------------------------------------- actions

\* sys.exit(c), or the end of main: the process is over.
Exit(c) ==
    /\ pc' = "exited"
    /\ exitcode' = <<c>>

\* Variant of init_session that tries the warm-up again after a failure
\* instead of ending the process.
init_session_retry ==
    /\ pc = "init_session"
    /\ \E outcome \in StatusOutcomes :
         /\ IF outcome = "200"
            THEN /\ pc' = "login_call"
                 /\ loginKind' = "initial"
            ELSE UNCHANGED << pc, loginKind >>
         /\ logged' = IF outcome = "200"
                      THEN "Initializing session..."
                      ELSE IF outcome = "ConnectionError"
                           THEN "No connection to zerberus possible"
                           ELSE "No connection to the login server possible"
    /\ lastIO' = "GET index.php"
    /\ UNCHANGED << optVars, rdVars, verbVars >>
    /\ UNCHANGED pollOutcome
    /\ UNCHANGED << safe_mode, password, loginVars, exitcode, interrupted,
                    logoutOutcome, sentPassword, expired, serverOk, nPrompt,
                    nPost, nPoll, nPollFail, nRelogin, nLogout >>

\* Login._init_session: GET index.php; a connection error or a status
\* other than 200 ends the process with sys.exit(1).
init_session ==
    /\ pc = "init_session"
    /\ \E outcome \in StatusOutcomes :
         /\ IF outcome = "200"
            THEN /\ pc' = "login_call"
                 /\ loginKind' = "initial"
                 /\ UNCHANGED exitcode
            ELSE /\ Exit(1)
                 /\ UNCHANGED loginKind
         /\ logged' = IF outcome = "200"
                      THEN "Initializing session..."
                      ELSE IF outcome = "ConnectionError"
                           THEN "No connection to zerberus possible"
                           ELSE "No connection to the login server possible"
    /\ lastIO' = "GET index.php"
    /\ UNCHANGED << optVars, rdVars, verbVars >>
    /\ UNCHANGED pollOutcome
    /\ UNCHANGED << safe_mode, password, loginVars, interrupted, logoutOutcome,
                    sentPassword, expired, serverOk, nPrompt, nPost, nPoll,
                    nPollFail, nRelogin, nLogout >>

\* Variant of login_call in which a re-login goes on with the budget the
\* previous call left.
login_call_shared_budget ==
    /\ pc = "login_call"
    /\ retries' = IF loginKind = "relogin" THEN retries ELSE RetryBudget
    /\ response' = NoResponse
    /\ postsCall' = 0
    /\ promptsCall' = 0
    /\ nRelogin' = IF loginKind = "relogin" THEN nRelogin + 1 ELSE nRelogin
    /\ pc' = login_loop(IF loginKind = "relogin" THEN retries ELSE RetryBudget)
    /\ logged' = "Logging in..."
    /\ UNCHANGED << optVars, rdVars, verbVars >>
    /\ pollOutcome' = NoPoll
    /\ UNCHANGED << safe_mode, password, loginKind, passwd, loginResult,
                    exitcode, interrupted, logoutOutcome, lastIO, sentPassword,
                    expired, serverOk, nPrompt, nPost, nPoll, nPollFail,
                    nLogout >>

\* Head of Login._login: retries = 5, response = None, then the first test
\* of `while retries > 0`.
login_call ==
    /\ pc = "login_call"
    /\ retries' = RetryBudget
    /\ response' = NoResponse
    /\ postsCall' = 0
    /\ promptsCall' = 0
    /\ nRelogin' = IF loginKind = "relogin" THEN nRelogin + 1 ELSE nRelogin
    /\ pc' = login_loop(RetryBudget)
    /\ logged' = "Logging in..."
    /\ UNCHANGED << optVars, rdVars, verbVars >>
    /\ pollOutcome' = NoPoll
    /\ UNCHANGED << safe_mode, password, loginKind, passwd, loginResult,
                    exitcode, interrupted, logoutOutcome, lastIO, sentPassword,
                    expired, serverOk, nPrompt, nPost, nPoll, nPollFail,
                    nLogout >>

\* The self.get_passwd() call that builds the POST's form data.
login_get_passwd ==
    /\ pc = "get_passwd"
    /\ \E typed \in Passwords :
         LET r == get_passwd(safe_mode, password, typed) IN
           /\ passwd' = r.ret
           /\ password' = r.password
           /\ nPrompt' = IF r.prompted THEN nPrompt + 1 ELSE nPrompt
           /\ promptsCall' = IF r.prompted THEN promptsCall + 1 ELSE promptsCall
           /\ lastIO' = IF r.prompted THEN "prompt" ELSE lastIO
    /\ pc' = "post"
    /\ UNCHANGED << optVars, rdVars, verbVars >>
    /\ UNCHANGED << logged, pollOutcome >>
    /\ UNCHANGED << safe_mode, loginKind, retries, response, loginResult,
                    postsCall, exitcode, interrupted, logoutOutcome,
                    sentPassword, expired, serverOk, nPost, nPoll, nPollFail,
                    nRelogin, nLogout >>

\* The operator answers the getpass prompt of get_passwd with Ctrl-C: the
\* prompt was shown, nothing is stored, and the KeyboardInterrupt leaves
\* execute for main's handler.
login_get_passwd_interrupt ==
    /\ pc = "get_passwd"
    /\ \E typed \in Passwords : get_passwd(safe_mode, password, typed).prompted
    /\ nPrompt' = nPrompt + 1
    /\ promptsCall' = promptsCall + 1
    /\ lastIO' = "prompt"
    /\ pc' = "shutdown"
    /\ interrupted' = TRUE
    /\ logged' = "Received keyboard interrupt. Stopping running actions..."
    /\ UNCHANGED << optVars, rdVars, verbVars >>
    /\ UNCHANGED pollOutcome
    /\ UNCHANGED << safe_mode, password, loginKind, retries, response, passwd,
                    loginResult, postsCall, exitcode, logoutOutcome,
                    sentPassword, expired, serverOk, nPost, nPoll, nPollFail,
                    nRelogin, nLogout >>

\* session.post(login-exec.php): a response breaks out of the loop, a
\* ConnectionError is logged and leads to the retry sleep.
login_post ==
    /\ pc = "post"
    /\ \E outcome \in UrlOutcomes :
         /\ IF outcome = ConnError
            THEN /\ pc' = "retry_sleep"
                 /\ UNCHANGED response
            ELSE /\ pc' = "login_return"
                 /\ response' = outcome
         /\ serverOk' = (serverOk /\ outcome # ConnError
                                  /\ ~EndsWith(outcome, LandingSuffix))
         /\ logged' = IF outcome = ConnError
                      THEN "No connection possible... %d retries left"
                      ELSE logged
    /\ nPost' = nPost + 1
    /\ postsCall' = postsCall + 1
    /\ sentPassword' = passwd
    /\ lastIO' = "POST login-exec.php"
    /\ UNCHANGED << optVars, rdVars, verbVars >>
    /\ UNCHANGED pollOutcome
    /\ UNCHANGED << safe_mode, password, loginKind, retries, passwd,
                    loginResult, promptsCall, exitcode, interrupted,
                    logoutOutcome, expired, nPrompt, nPoll, nPollFail,
                    nRelogin, nLogout >>

\* sleep(30); retries -= 1; then the next test of `while retries > 0`.
login_retry_sleep ==
    /\ pc = "retry_sleep"
    /\ retries' = retries - 1
    /\ pc' = login_loop(retries - 1)
    /\ lastIO' = "sleep 30"
    /\ UNCHANGED << optVars, rdVars, verbVars >>
    /\ UNCHANGED << logged, pollOutcome >>
    /\ UNCHANGED << safe_mode, password, loginKind, response, passwd,
                    loginResult, postsCall, promptsCall, exitcode, interrupted,
                    logoutOutcome, sentPassword, expired, serverOk, nPrompt,
                    nPost, nPoll, nPollFail, nRelogin, nLogout >>

\* return retries > 0 and not response.url.endswith("index.php")
login_return ==
    /\ pc = "login_return"
    /\ loginResult' = <<login_result(retries, response)>>
    /\ expired' = IF login_result(retries, response) THEN FALSE ELSE expired
    /\ pc' = "login_done"
    /\ UNCHANGED << optVars, rdVars, verbVars >>
    /\ UNCHANGED << logged, pollOutcome >>
    /\ UNCHANGED << safe_mode, password, loginKind, retries, response, passwd,
                    postsCall, promptsCall, exitcode, interrupted,
                    logoutOutcome, lastIO, sentPassword, serverOk, nPrompt,
                    nPost, nPoll, nPollFail, nRelogin, nLogout >>


\* Variant of execute_login that ends with sys.exit(1) on failure.
execute_login_exit1 ==
    /\ pc = "login_done"
    /\ loginKind = "initial"
    /\ IF loginResult = <<TRUE>>
       THEN /\ pc' = "keepalive"
            /\ UNCHANGED exitcode
       ELSE Exit(1)
    /\ logged' = IF loginResult = <<TRUE>>
                 THEN "Successfully logged in"
                 ELSE "Invalid username/password!"
    /\ UNCHANGED << optVars, rdVars, verbVars >>
    /\ UNCHANGED pollOutcome
    /\ UNCHANGED << safe_mode, password, loginKind, loginVars, interrupted,
                    logoutOutcome, histVars >>

\* Variant of execute_login that goes on to the keep-alive loop whatever
\* _login returned.
execute_login_noexit ==
    /\ pc = "login_done"
    /\ loginKind = "initial"
    /\ pc' = "keepalive"
    /\ logged' = "Successfully logged in"
    /\ UNCHANGED << optVars, rdVars, verbVars >>
    /\ UNCHANGED pollOutcome
    /\ UNCHANGED << safe_mode, password, loginKind, loginVars, exitcode,
                    interrupted, logoutOutcome, histVars >>

\* execute, `if not self._login()` after _init_session: sys.exit(-1) on
\* failure, otherwise on to the keep-alive loop.
execute_login ==
    /\ pc = "login_done"
    /\ loginKind = "initial"
    /\ IF loginResult = <<TRUE>>
       THEN /\ pc' = "keepalive"
            /\ UNCHANGED exitcode
       ELSE Exit(-1)
    /\ logged' = IF loginResult = <<TRUE>>
                 THEN "Successfully logged in"
                 ELSE "Invalid username/password!"
    /\ UNCHANGED << optVars, rdVars, verbVars >>
    /\ UNCHANGED pollOutcome
    /\ UNCHANGED << safe_mode, password, loginKind, loginVars, interrupted,
                    logoutOutcome, histVars >>


\* Variant of execute_keepalive that sleeps and polls again after a failed
\* poll instead of logging in again.
execute_keepalive_nologin ==
    /\ pc = "keepalive"
    /\ nPoll < MaxPolls
    /\ \E outcome \in PollOutcomes :
         LET alive == keepalive(outcome) IN
           /\ pollOutcome' = outcome
           /\ IF alive
              THEN UNCHANGED << expired, nPollFail >>
              ELSE /\ expired' = TRUE
                   /\ nPollFail' = nPollFail + 1
           /\ serverOk' = (serverOk /\ alive)
    /\ pc' = "poll_sleep"
    /\ nPoll' = nPoll + 1
    /\ lastIO' = "GET online.php"
    /\ logged' = "Sending keep-alive"
    /\ UNCHANGED << optVars, rdVars, verbVars >>
    /\ UNCHANGED << safe_mode, password, loginKind, loginVars, exitcode,
                    interrupted, logoutOutcome, sentPassword, nPrompt, nPost,
                    nRelogin, nLogout >>

\* Variant of execute_keepalive that polls again at once after a
\* successful poll, without the sleep.
execute_keepalive_nosleep ==
    /\ pc = "keepalive"
    /\ nPoll < MaxPolls
    /\ \E outcome \in PollOutcomes :
         LET alive == keepalive(outcome) IN
           /\ pollOutcome' = outcome
           /\ IF alive
              THEN /\ pc' = "keepalive"
                   /\ UNCHANGED << loginKind, expired, nPollFail >>
              ELSE /\ pc' = "login_call"
                   /\ loginKind' = "relogin"
                   /\ expired' = TRUE
                   /\ nPollFail' = nPollFail + 1
           /\ serverOk' = (serverOk /\ alive)
    /\ nPoll' = nPoll + 1
    /\ lastIO' = "GET online.php"
    /\ logged' = "Sending keep-alive"
    /\ UNCHANGED << optVars, rdVars, verbVars >>
    /\ UNCHANGED << safe_mode, password, loginVars, exitcode, interrupted,
                    logoutOutcome, sentPassword, nPrompt, nPost, nRelogin,
                    nLogout >>

\* execute, top of `while True`: self._keepalive() sends GET online.php.
\* True leads to the sleep, False to the re-login.
execute_keepalive ==
    /\ pc = "keepalive"
    /\ nPoll < MaxPolls
    /\ \E outcome \in PollOutcomes :
         LET alive == keepalive(outcome) IN
           /\ pollOutcome' = outcome
           /\ IF alive
              THEN /\ pc' = "poll_sleep"
                   /\ UNCHANGED << loginKind, expired, nPollFail >>
              ELSE /\ pc' = "login_call"
                   /\ loginKind' = "relogin"
                   /\ expired' = TRUE
                   /\ nPollFail' = nPollFail + 1
           /\ serverOk' = (serverOk /\ alive)
    /\ nPoll' = nPoll + 1
    /\ lastIO' = "GET online.php"
    /\ logged' = "Sending keep-alive"
    /\ UNCHANGED << optVars, rdVars, verbVars >>
    /\ UNCHANGED << safe_mode, password, loginVars, exitcode, interrupted,
                    logoutOutcome, sentPassword, nPrompt, nPost, nRelogin,
                    nLogout >>


\* Variant of execute_relogin that sleeps the poll interval after a
\* successful re-login before it polls again.
execute_relogin_sleep ==
    /\ pc = "login_done"
    /\ loginKind = "relogin"
    /\ IF loginResult = <<TRUE>>
       THEN /\ pc' = "poll_sleep"
            /\ UNCHANGED exitcode
       ELSE Exit(0)
    /\ logged' = IF loginResult = <<TRUE>>
                 THEN logged
                 ELSE "Couldn't log back in"
    /\ UNCHANGED << optVars, rdVars, verbVars >>
    /\ UNCHANGED pollOutcome
    /\ UNCHANGED << safe_mode, password, loginKind, loginVars, interrupted,
                    logoutOutcome, histVars >>

\* Variant of execute_relogin that runs the shutdown hook after a failed
\* re-login instead of leaving through sys.exit.
execute_relogin_logout ==
    /\ pc = "login_done"
    /\ loginKind = "relogin"
    /\ pc' = IF loginResult = <<TRUE>> THEN "keepalive" ELSE "shutdown"
    /\ logged' = IF loginResult = <<TRUE>>
                 THEN logged
                 ELSE "Couldn't log back in"
    /\ UNCHANGED << optVars, rdVars, verbVars >>
    /\ UNCHANGED pollOutcome
    /\ UNCHANGED << safe_mode, password, loginKind, loginVars, exitcode,
                    interrupted, logoutOutcome, histVars >>

\* Variant of execute_relogin that logs in once more after a failed
\* re-login instead of ending the process.
execute_relogin_again ==
    /\ pc = "login_done"
    /\ loginKind = "relogin"
    /\ pc' = IF loginResult = <<TRUE>> THEN "keepalive" ELSE "login_call"
    /\ logged' = IF loginResult = <<TRUE>>
                 THEN logged
                 ELSE "Couldn't log back in"
    /\ UNCHANGED << optVars, rdVars, verbVars >>
    /\ UNCHANGED pollOutcome
    /\ UNCHANGED << safe_mode, password, loginKind, loginVars, exitcode,
                    interrupted, logoutOutcome, histVars >>

\* execute, `if not self._login()` inside the loop: sys.exit(0) on failure,
\* otherwise straight back to the top of the loop.
execute_relogin ==
    /\ pc = "login_done"
    /\ loginKind = "relogin"
    /\ IF loginResult = <<TRUE>>
       THEN /\ pc' = "keepalive"
            /\ UNCHANGED exitcode
       ELSE Exit(0)
    /\ logged' = IF loginResult = <<TRUE>>
                 THEN logged
                 ELSE "Couldn't log back in"
    /\ UNCHANGED << optVars, rdVars, verbVars >>
    /\ UNCHANGED pollOutcome
    /\ UNCHANGED << safe_mode, password, loginKind, loginVars, interrupted,
                    logoutOutcome, histVars >>

\* execute, `else: sleep(self.options.timeout)`, then back to the top of
\* the loop.
execute_sleep ==
    /\ pc = "poll_sleep"
    /\ pc' = "keepalive"
    /\ lastIO' = "sleep timeout"
    /\ UNCHANGED << optVars, rdVars, verbVars >>
    /\ pollOutcome' = NoPoll
    /\ UNCHANGED logged
    /\ UNCHANGED << safe_mode, password, loginKind, loginVars, exitcode,
                    interrupted, logoutOutcome, sentPassword, expired,
                    serverOk, nPrompt, nPost, nPoll, nPollFail, nRelogin,
                    nLogout >>

\* main: a KeyboardInterrupt raised anywhere in action.execute() is caught
\* and action.shutdown() is called.
main_interrupt ==
    /\ pc \in ExecutePcs
    /\ pc' = "shutdown"
    /\ interrupted' = TRUE
    /\ logged' = "Received keyboard interrupt. Stopping running actions..."
    /\ UNCHANGED << optVars, rdVars, verbVars >>
    /\ pollOutcome' = NoPoll
    /\ UNCHANGED << safe_mode, password, loginKind, loginVars, exitcode,
                    logoutOutcome, histVars >>

\* Login.shutdown with Login._logout: GET logout.php, log the result from
\* the status code, return to main, which ends.  A ConnectionError is
\* caught nowhere and ends the process with a traceback (status 1).
shutdown ==
    /\ pc = "shutdown"
    /\ \E outcome \in StatusOutcomes :
         /\ logoutOutcome' = outcome
         /\ IF outcome = "ConnectionError" THEN Exit(1) ELSE Exit(0)
         /\ logged' = IF outcome = "200"
                      THEN "Goodbye!"
                      ELSE IF outcome = "ConnectionError"
                           THEN "Logging out..."
                           ELSE "Logout failed"
    /\ nLogout' = nLogout + 1
    /\ lastIO' = "GET logout.php"
    /\ UNCHANGED << optVars, rdVars, verbVars >>
    /\ UNCHANGED pollOutcome
    /\ UNCHANGED << safe_mode, password, loginKind, loginVars, interrupted,
                    sentPassword, expired, serverOk, nPrompt, nPost, nPoll,
                    nPollFail, nRelogin >>

\* ------------------------------------------- the remote-desktop action

\* Everything the login action owns; no step of the other action or of the
\* option parsing touches it.
loginState == << safe_mode, password, loginKind, loginVars, interrupted,
                 logoutOutcome, lastIO, sentPassword, expired, serverOk,
                 nPrompt, nPost, nPoll, nPollFail, nRelogin, nLogout,
                 pollOutcome >>

\* Positions inside RemoteDesktop.execute.
RdExecutePcs == {"rd_execute", "rd_wait"}

\* RemoteDesktop.execute up to subprocess.Popen: the child is spawned and
\* self.proc is set, or Popen raises (no rdesktop on the PATH, or a file
\* that cannot be executed) and the exception ends the process.
rd_popen ==
    /\ pc = "rd_execute"
    /\ logged' = "Connecting to the remote desktop"
    /\ \E spawned \in (IF rdesktop_found THEN BOOLEAN ELSE {FALSE}) :
         IF spawned
         THEN /\ proc' = "Popen"
              /\ child' = "running"
              /\ pc' = "rd_wait"
              /\ UNCHANGED exitcode
         ELSE /\ Exit(1)
              /\ UNCHANGED << proc, child >>
    /\ UNCHANGED << loginState, optVars, verbVars, rdesktop_found, returncode,
                    signalled >>

\* The rdesktop process ends: the user closes it, or it dies of a signal.
rd_child_exit ==
    /\ child = "running"
    /\ child' = "exited"
    /\ UNCHANGED << pc, exitcode, logged, loginState, optVars, verbVars,
                    rdesktop_found, proc, returncode, signalled >>

\* self.proc.wait() returns once the child has ended; execute returns and
\* main ends.
rd_wait ==
    /\ pc = "rd_wait"
    /\ child = "exited"
    /\ returncode' = "set"
    /\ Exit(0)
    /\ UNCHANGED << logged, loginState, optVars, verbVars, rdesktop_found,
                    proc, child, signalled >>

\* main: a KeyboardInterrupt raised in RemoteDesktop.execute is caught and
\* action.shutdown() is called.
main_interrupt_termserv ==
    /\ pc \in RdExecutePcs
    /\ pc' = "rd_shutdown"
    /\ interrupted' = TRUE
    /\ logged' = "Received keyboard interrupt. Stopping running actions..."
    /\ UNCHANGED << safe_mode, password, loginKind, loginVars, exitcode,
                    logoutOutcome, histVars, pollOutcome, optVars, rdVars,
                    verbVars >>

\* RemoteDesktop.shutdown, `self.proc.poll()` and the test of returncode:
\* without self.proc the attribute lookup raises AttributeError, which
\* nothing catches; a reaped child ends shutdown; a running one leads to
\* terminate().
rd_shutdown ==
    /\ pc = "rd_shutdown"
    /\ IF proc = None
       THEN /\ Exit(1)
            /\ UNCHANGED << returncode, logged >>
       ELSE IF child = "exited"
            THEN /\ returncode' = "set"
                 /\ Exit(0)
                 /\ UNCHANGED logged
            ELSE /\ pc' = "rd_terminate"
                 /\ logged' = "Killing rdesktop process..."
                 /\ UNCHANGED << returncode, exitcode >>
    /\ UNCHANGED << loginState, optVars, verbVars, rdesktop_found, proc,
                    child, signalled >>

\* self.proc.terminate(): SIGTERM to a child that still runs.  A child
\* that has ended since the poll is a zombie: Popen.send_signal either
\* polls first and sends nothing, or (before Python 3.9) signals the
\* zombie.  Then shutdown returns and main ends.
rd_terminate ==
    /\ pc = "rd_terminate"
    /\ IF child = "running"
       THEN signalled' = "running"
       ELSE \E sent \in BOOLEAN :
              signalled' = IF sent THEN "exited" ELSE signalled
    /\ Exit(0)
    /\ UNCHANGED << logged, loginState, optVars, verbVars, rdesktop_found,
                    proc, child, returncode >>

Next ==
    \/ init_session
    \/ login_call
    \/ login_get_passwd
    \/ login_get_passwd_interrupt
    \/ login_post
    \/ login_retry_sleep
    \/ login_return
    \/ execute_login
    \/ execute_keepalive
    \/ execute_relogin
    \/ execute_sleep
    \/ main_interrupt
    \/ shutdown
    \/ rd_popen
    \/ rd_child_exit
    \/ rd_wait
    \/ main_interrupt_termserv
    \/ rd_shutdown
    \/ rd_terminate

Spec == Init /\ [][Next]_vars

\* The program's own steps, as opposed to the operator's interrupt.  A
\* sequential process always goes on to its next statement; every blocking
\* call (request, prompt, sleep) is taken to return.
ProgramStep ==
    \/ init_session
    \/ login_call
    \/ login_get_passwd
    \/ login_post
    \/ login_retry_sleep
    \/ login_return
    \/ execute_login
    \/ execute_keepalive
    \/ execute_relogin
    \/ execute_sleep
    \/ shutdown
    \/ rd_popen
    \/ rd_wait
    \/ rd_shutdown
    \/ rd_terminate

FairSpec == Init /\ [][Next]_vars /\ WF_vars(ProgramStep)

\* ------------------------------------- main's parsing of the -v option

\* Command lines of at most n verbosity flags.
FlagLines(n) == UNION {[1..k -> VerbosityFlags] : k \in 0..n}

\* main before parser.parse_args: the namespace holds the option's
\* default, the root logger its own default level (WARNING); no action
\* object exists yet.
VerbInit ==
    /\ pc = "parse_args"
    /\ argv \in FlagLines(MaxFlags)
    /\ verbose = VerboseDefault
    /\ level = WARNING
    /\ action = None
    /\ safe_mode = None
    /\ password = None
    /\ loginKind = None
    /\ retries = 0
    /\ response = NoResponse
    /\ passwd = None
    /\ loginResult = <<>>
    /\ exitcode = <<>>
    /\ interrupted = FALSE
    /\ logoutOutcome = None
    /\ lastIO = None
    /\ sentPassword = None
    /\ expired = FALSE
    /\ serverOk = TRUE
    /\ nPrompt = 0
    /\ nPost = 0
    /\ postsCall = 0
    /\ promptsCall = 0
    /\ nPoll = 0
    /\ nPollFail = 0
    /\ nRelogin = 0
    /\ nLogout = 0
    /\ logged = None
    /\ pollOutcome = NoPoll
    /\ opt_password = None
    /\ rdesktop_found = FALSE
    /\ proc = None
    /\ child = "none"
    /\ returncode = None
    /\ signalled = None

\* argparse's count action on the next verbosity flag: every occurrence
\* adds one to the value the namespace holds, which starts at the default.
parse_verbose ==
    /\ pc = "parse_args"
    /\ argv # <<>>
    /\ verbose' = verbose + flag_count(Head(argv))
    /\ argv' = Tail(argv)
    /\ UNCHANGED << pc, level, exitcode, logged, loginState, optVars, rdVars >>

\* main after parse_args: the chain of setLevel calls on the root logger.
main_set_level ==
    /\ pc = "parse_args"
    /\ argv = <<>>
    /\ level' = set_level(level, verbose)
    /\ pc' = "dispatch"
    /\ UNCHANGED << argv, verbose, exitcode, logged, loginState, optVars,
                    rdVars >>

VerbNext ==
    \/ parse_verbose
    \/ main_set_level

VerbSpec == VerbInit /\ [][VerbNext]_vars

\* ------------------------------------------------------ derived notions

\* The process has ended.
Exited == pc = "exited"

\* The process has ended by itself: sys.exit in execute, no interrupt.
ExitedByItself == Exited /\ ~interrupted

\* The response of the current (or last) _login call came back to the
\* landing page.
RedirectedBack == EndsWith(response, LandingSuffix)

\* Every POST of the current (or last) _login call raised a connection
\* error and the budget is used up.
BudgetExhausted == response = NoResponse /\ postsCall = RetryBudget

\* Safe mode as get_passwd tests it.
SafeMode == Truthy(safe_mode)

\* -------------------------------------------------------------- claims

\* C1 as stated: the process exits with code -1 if and only if the final
\* login attempt's response URL ends with index.php.
C1_ExitMinusOneIffRedirectedBack ==
    ExitedByItself => ((exitcode = <<-1>>) <=> RedirectedBack)

\* C1, amended: the process exits with code -1 if and only if the INITIAL
\* login call fails and no interrupt intervenes, that is, its response URL
\* ends with index.php or all 5 of its POSTs raised a connection error.  A
\* failed re-login never gives -1.
C1_ExitMinusOneIffInitialLoginFailed ==
    Exited =>
        ((exitcode = <<-1>>) <=>
            /\ ~interrupted
            /\ loginKind = "initial"
            /\ (RedirectedBack \/ BudgetExhausted))

C1_Witness ==
    /\ Exited
    /\ exitcode = <<-1>>
    /\ loginKind = "initial"
    /\ BudgetExhausted

\* C2 as stated: a _login call that has met n <= 5 connection errors goes
\* on to the next POST, and when that POST comes back to a URL not ending
\* with index.php the call returns success with exactly n units of the
\* budget of 5 consumed.
C2_UpToFiveErrorsThenSuccess ==
    pc = "login_done" =>
        /\ (response = NoResponse => postsCall > RetryBudget)
        /\ (response # NoResponse /\ ~RedirectedBack =>
                /\ loginResult = <<TRUE>>
                /\ RetryBudget - retries = postsCall - 1)

\* C3 as stated: when every POST of a login call, initial or re-login,
\* raises a connection error, the process ends with a nonzero status.
C3_ExhaustedBudgetExitsNonzero ==
    (ExitedByItself /\ BudgetExhausted) => ExitStatus(exitcode[1]) # 0

\* C3, amended: when every POST of a login call raises a connection error,
\* the call sends exactly 5 POSTs and returns failure; the process then
\* exits with a nonzero status (-1) if the call was the initial login and
\* with status 0 if it was a re-login.
C3_ExhaustedBudgetExit ==
    /\ (response = NoResponse => postsCall <= RetryBudget)
    /\ (pc = "login_done" /\ response = NoResponse =>
            /\ BudgetExhausted
            /\ retries = 0
            /\ loginResult = <<FALSE>>)
    /\ (ExitedByItself /\ BudgetExhausted =>
            IF loginKind = "initial"
            THEN exitcode = <<-1>> /\ ExitStatus(exitcode[1]) # 0
            ELSE exitcode = <<0>>)

C3_Witness ==
    /\ ExitedByItself
    /\ BudgetExhausted
    /\ loginKind = "relogin"
    /\ exitcode = <<0>>

\* C4: every failed keep-alive poll is followed at once by exactly one
\* re-login call, with no poll and no sleep in between (only the
\* operator's interrupt can cut in), and no re-login call is made except
\* directly after a failed poll.
C4_OneReloginPerFailedPoll ==
    /\ [](nPollFail = nRelogin \/ nPollFail = nRelogin + 1)
    /\ [](nPollFail = nRelogin + 1 /\ ~interrupted => lastIO = "GET online.php")
    /\ [][nRelogin' = nRelogin + 1 =>
            nPollFail = nRelogin + 1 /\ lastIO = "GET online.php"]_vars
    /\ [][nPollFail' = nPollFail + 1 => nPollFail = nRelogin]_vars
    /\ [][(nPollFail = nRelogin + 1 /\ ~interrupted) =>
            (nRelogin' = nRelogin + 1 \/ interrupted')]_vars

C4_Witness ==
    /\ nPollFail = 2
    /\ nRelogin = 2
    /\ pc = "get_passwd"

\* C5: a keep-alive poll is sent only when the most recent _login call
\* returned success and no poll has failed since.
C5_PollOnlyWhenAuthenticated ==
    [][nPoll' = nPoll + 1 => loginResult = <<TRUE>> /\ ~expired]_vars

C5_Witness ==
    /\ nPoll = 2
    /\ nPollFail = 1
    /\ nRelogin = 1
    /\ lastIO = "GET online.php"

\* C6: when a re-login fails, no further poll or login is made and the
\* process exits with status 0; a failed initial login exits with a
\* nonzero status.
C6_FailedReloginExitsZero ==
    /\ [](ExitedByItself /\ loginResult = <<FALSE>> =>
            IF loginKind = "relogin"
            THEN exitcode = <<0>>
            ELSE ExitStatus(exitcode[1]) # 0)
    /\ [][pc = "login_done" /\ loginResult = <<FALSE>> =>
            /\ pc' = "exited" \/ interrupted'
            /\ nPoll' = nPoll
            /\ nPost' = nPost
            /\ nRelogin' = nRelogin]_vars
    /\ [][pc = "exited" =>
            /\ pc' = "exited"
            /\ exitcode' = exitcode
            /\ nPoll' = nPoll
            /\ nPost' = nPost
            /\ nRelogin' = nRelogin]_vars

C6_Witness ==
    /\ ExitedByItself
    /\ loginKind = "relogin"
    /\ RedirectedBack
    /\ exitcode = <<0>>

\* C7 as stated: in safe mode the prompt is invoked exactly once per
\* _login call and self.password stays None.
C7_SafeModeOncePerLoginCall ==
    SafeMode =>
        /\ password = None
        /\ promptsCall <= 1
        /\ (pc = "login_done" => promptsCall = 1)

\* C7, amended: in safe mode the prompt is invoked exactly once per login
\* POST, so once more for every resubmit after a connection error, not
\* once per _login call; self.password stays None.
C7_SafeModeOncePerPost ==
    /\ [](SafeMode =>
            /\ password = None
            /\ (nPrompt = nPost \/ nPrompt = nPost + 1)
            /\ (promptsCall = postsCall \/ promptsCall = postsCall + 1)
            /\ (pc = "login_done" => promptsCall = postsCall /\ promptsCall >= 1))
    /\ [][SafeMode /\ nPost' = nPost + 1 =>
            nPrompt = nPost + 1 /\ lastIO = "prompt" /\ sentPassword' = passwd]_vars
    /\ [][SafeMode /\ pc = "get_passwd" /\ pc' = "post" =>
            nPrompt' = nPrompt + 1 /\ nPrompt = nPost]_vars

C7_Witness ==
    /\ SafeMode
    /\ pc = "login_done"
    /\ promptsCall = 3
    /\ postsCall = 3
    /\ nRelogin = 1

\* C8: with safe mode off the prompt is invoked at most once in the whole
\* run, over all login calls, re-logins and resubmits; every later
\* retrieval returns the cached value.
C8_PromptAtMostOnce ==
    /\ [](~SafeMode =>
            /\ nPrompt <= 1
            /\ (password # None => nPrompt = 1)
            /\ (passwd # None => passwd = password)
            /\ (nPost > 0 => sentPassword = password))
    /\ [][~SafeMode /\ password # None => password' = password]_vars

C8_Witness ==
    /\ ~SafeMode
    /\ nPrompt = 1
    /\ nRelogin = 2
    /\ postsCall = 2
    /\ lastIO = "POST login-exec.php"

C10_RejectedInitialLogin ==
    /\ [](loginKind = "initial" /\ RedirectedBack =>
            /\ nPoll = 0
            /\ (pc = "login_done" => loginResult = <<FALSE>>)
            /\ (ExitedByItself => exitcode = <<-1>>))
    /\ [][loginKind = "initial" /\ RedirectedBack =>
            \/ pc = "login_return" /\ pc' = "login_done"
            \/ pc = "login_done" /\ pc' = "exited"
            \/ interrupted']_vars

C10_Witness ==
    /\ ExitedByItself
    /\ loginKind = "initial"
    /\ response = <<"https://", "zerberus.ba-horb.de", "/sub/", "index.php">>
    /\ exitcode = <<-1>>
    /\ nPoll = 0

\* Positions inside Login._login.
LoginPcs == {"login_call", "get_passwd", "post", "retry_sleep", "login_return"}

\* The two fatal messages of _init_session.
InitFatal == {"No connection to zerberus possible",
              "No connection to the login server possible"}

\* C11 as stated: after a successful re-login the next poll is separated
\* from it by a sleep of `timeout` seconds, as between any two polls.
C11_SleepBeforeEveryLaterPoll ==
    [][nPoll' = nPoll + 1 /\ nPoll >= 1 => lastIO = "sleep timeout"]_vars

\* C11, amended: after a failed poll and a successful re-login the
\* controller is back in the loop and polls again at once, with no sleep
\* between the re-login's POST and that poll; the sleep of `timeout`
\* seconds comes after every successful poll and only there.
C11_PollAtOnceAfterRelogin ==
    /\ [][nPoll' = nPoll + 1 /\ nPoll >= 1 =>
            \/ lastIO = "sleep timeout"
            \/ /\ lastIO = "POST login-exec.php"
               /\ loginKind = "relogin"
               /\ loginResult = <<TRUE>>
               /\ nRelogin = nPollFail]_vars
    /\ [][pc = "login_done" /\ loginKind = "relogin" /\ loginResult = <<TRUE>> =>
            (pc' = "keepalive" /\ lastIO' = lastIO) \/ interrupted']_vars
    /\ [][lastIO' = "sleep timeout" /\ lastIO # "sleep timeout" =>
            lastIO = "GET online.php" /\ keepalive(pollOutcome)]_vars
    /\ [][pc = "poll_sleep" /\ pc' = "keepalive" => lastIO' = "sleep timeout"]_vars

C11_Witness ==
    /\ nPoll = 2
    /\ nPollFail = 1
    /\ nRelogin = 1
    /\ pc = "poll_sleep"
    /\ loginKind = "relogin"

\* C12: a warm-up GET that raises a connection error or returns a status
\* other than 200 ends the process with code 1; the warm-up is sent once
\* and no login POST and no poll is sent.
C12_WarmupFailureIsFatal ==
    /\ [](logged \in InitFatal =>
            /\ Exited
            /\ exitcode = <<1>>
            /\ lastIO = "GET index.php"
            /\ nPost = 0
            /\ nPoll = 0
            /\ nLogout = 0)
    /\ [](action = "login" /\ ExitedByItself /\ loginKind = None =>
            logged \in InitFatal)
    /\ [][lastIO' = "GET index.php" /\ lastIO' # lastIO => lastIO = None]_vars
    /\ [][pc' = "init_session" => pc = "init_session"]_vars

C12_Witness ==
    /\ Exited
    /\ exitcode = <<1>>
    /\ logged = "No connection to the login server possible"

\* C13 as stated: after an interrupt of the login action, shutdown sends
\* exactly one logout request and the process ends with exit status 0,
\* whatever the outcome of the request.
C13_InterruptEndsWithStatusZero ==
    (action = "login" /\ interrupted /\ Exited) =>
        nLogout = 1 /\ exitcode = <<0>>

\* C14 as stated: every failed logout, a status other than 200 as well as
\* a connection error, ends with "Logout failed" logged and the exit
\* status unchanged (0): no exception leaves shutdown.
C14_LogoutFailureIsLogged ==
    (Exited /\ logoutOutcome \in {"other", "ConnectionError"}) =>
        logged = "Logout failed" /\ exitcode = <<0>>

\* C15 as stated: a password given with -p is the one every login POST
\* submits, and the prompt is then never invoked.
C15_GivenPasswordIsUsed ==
    opt_password # None =>
        /\ nPrompt = 0
        /\ (nPost > 0 => sentPassword = opt_password)

\* C16: a keep-alive poll reports expiry if and only if the GET raised a
\* connection error or the final URL ends with index.php; any other
\* response, whatever its status code, counts as a live session.
C16_PollExpiryIffErrorOrLanding ==
    [][nPoll' = nPoll + 1 =>
        LET expiry == pollOutcome'.error
                        \/ EndsWith(pollOutcome'.url, LandingSuffix)
        IN  /\ (nPollFail' = nPollFail + 1) <=> expiry
            /\ (pc' = "login_call" /\ loginKind' = "relogin") <=> expiry
            /\ (pc' = "poll_sleep" /\ nPollFail' = nPollFail) <=> ~expiry]_vars

C16_Witness ==
    /\ pc = "poll_sleep"
    /\ pollOutcome.status = 500
    /\ pollOutcome.url =
         <<"https://", "zerberus.ba-horb.de", "/", "index.php", "?again=1">>

\* C17: every _login call starts with a budget of 5 whatever the call
\* before it left, sends at most 5 POSTs, pays one unit and sleeps 30
\* seconds after each connection error before it goes on, and ends.
C17_FreshBoundedBudget ==
    /\ [][pc = "login_call" /\ pc' # "login_call" /\ ~interrupted' =>
            /\ retries' = RetryBudget
            /\ postsCall' = 0
            /\ pc' = "get_passwd"]_vars
    /\ [](postsCall <= RetryBudget)
    /\ [](pc \in {"get_passwd", "post"} =>
            retries > 0 /\ retries = RetryBudget - postsCall)
    /\ [](pc = "retry_sleep" => retries = RetryBudget - postsCall + 1)
    /\ [][pc = "post" /\ nPost' = nPost + 1 =>
            IF pc' = "retry_sleep"
            THEN response' = NoResponse /\ retries' = retries
            ELSE pc' = "login_return" /\ response' # NoResponse]_vars
    /\ [][pc = "retry_sleep" /\ pc' # "retry_sleep" /\ ~interrupted' =>
            /\ lastIO' = "sleep 30"
            /\ retries' = retries - 1
            /\ nPost' = nPost]_vars
    /\ ((pc \in LoginPcs) ~> (pc \notin LoginPcs))

C17_Witness ==
    /\ loginKind = "relogin"
    /\ pc = "login_done"
    /\ postsCall = RetryBudget
    /\ retries = 0
    /\ nPost = 2 * RetryBudget

\* C18 as stated: after an interrupt at any point of the remote-desktop
\* action's execute, shutdown raises no error and signals the child if
\* and only if it is still running, never a child that has ended.
C18_TermservShutdownIsSafe ==
    (action = "termserv" /\ interrupted /\ Exited) =>
        /\ exitcode = <<0>>
        /\ signalled # "exited"
        /\ (signalled = "running" <=> returncode = None)

\* C19: the shutdown hook runs and a logout request is sent only after an
\* operator interrupt; when the controller ends by itself (exit 1, -1 or
\* 0) no logout request is sent.
C19_LogoutOnlyOnInterrupt ==
    /\ [](nLogout > 0 \/ pc = "shutdown" => interrupted)
    /\ [](action = "login" /\ ExitedByItself =>
            /\ nLogout = 0
            /\ logoutOutcome = None
            /\ lastIO # "GET logout.php"
            /\ exitcode \in {<<1>>, <<-1>>, <<0>>})
    /\ [][nLogout' = nLogout + 1 => interrupted /\ pc = "shutdown"]_vars

C19_Witness ==
    /\ ExitedByItself
    /\ loginKind = "relogin"
    /\ exitcode = <<0>>
    /\ nPoll = 1
    /\ nLogout = 0

\* C20 as stated: each of WARNING, INFO, DEBUG and trace is the threshold
\* main sets for some number of -v occurrences, and more occurrences never
\* give a less verbose (numerically higher) threshold.
C20_EveryLevelSelectable ==
    pc = "dispatch" =>
        /\ level = set_level(WARNING, verbose)
        /\ \A l \in {WARNING, INFO, DEBUG, TRACE} :
             \E k \in 0..(2 * MaxFlags) :
               set_level(WARNING, VerboseDefault + k) = l
        /\ \A k \in 0..(2 * MaxFlags) :
             set_level(WARNING, VerboseDefault + k + 1)
                <= set_level(WARNING, VerboseDefault + k)

====
